---- MODULE Spec2Model ----
(***************************************************************************)
(* FerrisFocus: the Pomodoro timer of src/src/main.rs.                     *)
(*                                                                         *)
(* The program is one struct, PomodoroApp, and one handler,                *)
(* eframe::App::update, which egui calls once per frame.  A frame          *)
(*   1. evaluates the running timer and computes the MM:SS heading         *)
(*      (lines 108-145), switching period at an interval boundary,         *)
(*   2. handles a click on the Start/Pause button (lines 149-159),         *)
(*   3. handles a click on the Reset button (lines 164-169),               *)
(*   4. computes the progress bar value (lines 174-190),                   *)
(*   5. shows the "Timer Ended" label and calls play_end_sound             *)
(*      (lines 192-195).                                                   *)
(* The action Update(toggle, reset) is that whole handler.  The only other *)
(* step is the monotonic clock advancing between frames.                   *)
(*                                                                         *)
(* Time.  A Duration is a number of clock units, TicksPerSec units to the  *)
(* second, so that Duration::as_secs (truncation to whole seconds) is     *)
(* modelled by what it does.  An Instant is the clock reading `now`.  All  *)
(* clock reads of one frame return the same reading.                       *)
(***************************************************************************)
EXTENDS Integers, Sequences, FiniteSets

(***************************************************************************)
(* Bounds of the model.  The program's intervals are 25 and 5 minutes      *)
(* (lines 24-26); the model keeps the same construction but scales them to *)
(* WorkSecs and PauseSecs seconds, and lets the clock run up to MaxTime:    *)
(* one work interval, one break interval and Slack units more.             *)
(***************************************************************************)
TicksPerSec == 2
WorkSecs == 3
PauseSecs == 2
Slack == 4
MaxTime == (WorkSecs + PauseSecs) * TicksPerSec + Slack

VARIABLES
    now,              \* the monotonic clock (Instant::now()), in clock units
    start_time,       \* Option<Instant>: <<>> is None, <<t>> is Some(t)
    work_duration,    \* Duration, in clock units
    pause_duration,   \* Duration, in clock units
    current_duration, \* Duration, in clock units
    timer_running,
    is_work_period,
    timer_ended,
    sink,             \* number of sources queued in the rodio Sink
    minutes,          \* the heading rendered by the last frame
    seconds,
    progress,         \* the progress bar value of the last frame, <<num, den>>
    boundaries,       \* history: interval boundaries crossed so far
    ran,              \* history: clock units spent running in this interval
    seg               \* history: the start action of the current unbroken run

vars == <<now, start_time, work_duration, pause_duration, current_duration,
          timer_running, is_work_period, timer_ended, sink, minutes, seconds,
          progress, boundaries, ran, seg>>

None == <<>>
Some(x) == <<x>>

\* Duration::new(secs, 0)
DurationNew(secs) == secs * TicksPerSec

\* Duration::as_secs: the whole seconds of a duration, fraction dropped
as_secs(d) == d \div TicksPerSec

\* Instant::elapsed on the instant t, read at the clock reading `now`
elapsed_since(t) == now - t

\* lines 111-115 and 179-183: current_duration - elapsed, floored at zero
Remaining(duration, elapsed) ==
    IF duration > elapsed THEN duration - elapsed ELSE 0

\* line 117: the test that decides an interval has ended
IntervalEnded(remaining) == as_secs(remaining) = 0

\* a heading whose seconds are not reduced modulo 60
Display_NoMod(remaining) == <<as_secs(remaining) \div 60, as_secs(remaining)>>

\* lines 135 and 142: the (minutes, seconds) pair of the heading
Display(remaining) == <<as_secs(remaining) \div 60, as_secs(remaining) % 60>>

\* The fields of PomodoroApp that update() reads and writes, as one record
Self ==
    [start_time |-> start_time, work_duration |-> work_duration,
     pause_duration |-> pause_duration, current_duration |-> current_duration,
     timer_running |-> timer_running, is_work_period |-> is_work_period,
     timer_ended |-> timer_ended]

\* lines 119-132: the body of `if remaining.as_secs() == 0`
SwitchPeriod(s) ==
    [s EXCEPT !.timer_running = FALSE,
              !.timer_ended = TRUE,
              !.current_duration =
                  IF s.is_work_period THEN s.pause_duration ELSE s.work_duration,
              !.is_work_period = ~s.is_work_period,
              !.start_time = Some(now)]

\* lines 108-133: whether this frame's timer evaluation finds a boundary
Crossing(s) ==
    /\ s.timer_running
    /\ s.start_time # None
    /\ IntervalEnded(Remaining(s.current_duration, elapsed_since(s.start_time[1])))

\* lines 108-143, state part: the fields after the timer evaluation
TimerEval(s) == IF Crossing(s) THEN SwitchPeriod(s) ELSE s

\* lines 108-143, value part: the (minutes, seconds) the heading shows
TimerDisplay(s) ==
    IF s.timer_running
    THEN IF s.start_time # None
         THEN Display(Remaining(s.current_duration, elapsed_since(s.start_time[1])))
         ELSE <<0, 0>>
    ELSE Display(s.current_duration)

\* Start that does not record the instant it starts at
StartPauseClicked_NoStamp(s) ==
    IF s.timer_running
    THEN [s EXCEPT !.timer_running = FALSE]
    ELSE [s EXCEPT !.timer_running = TRUE,
                   !.timer_ended = FALSE]

\* Start that does not clear timer_ended
StartPauseClicked_KeepsEnded(s) ==
    IF s.timer_running
    THEN [s EXCEPT !.timer_running = FALSE]
    ELSE [s EXCEPT !.timer_running = TRUE,
                   !.start_time = Some(now)]

\* lines 150-158: the Start/Pause button was clicked
StartPauseClicked(s) ==
    IF s.timer_running
    THEN [s EXCEPT !.timer_running = FALSE]
    ELSE [s EXCEPT !.timer_running = TRUE,
                   !.start_time = Some(now),
                   !.timer_ended = FALSE]

\* lines 165-168: the Reset button was clicked
ResetClicked(s) ==
    [s EXCEPT !.timer_running = FALSE,
              !.start_time = None,
              !.current_duration = s.work_duration,
              !.timer_ended = FALSE]

\* a progress bar that shows remaining / current_duration, without the `1.0 -`
ProgressBar_Inverted(s) ==
    LET total_elapsed ==
            IF s.timer_running
            THEN (IF s.start_time # None THEN elapsed_since(s.start_time[1]) ELSE 0)
            ELSE 0
        remaining == Remaining(s.current_duration, total_elapsed)
    IN  IF as_secs(s.current_duration) > 0
        THEN <<remaining, s.current_duration>>
        ELSE <<0, 1>>

\* lines 174-188: the progress bar value, as the fraction <<num, den>>
ProgressBar(s) ==
    LET total_elapsed ==
            IF s.timer_running
            THEN (IF s.start_time # None THEN elapsed_since(s.start_time[1]) ELSE 0)
            ELSE 0
        remaining == Remaining(s.current_duration, total_elapsed)
    IN  IF as_secs(s.current_duration) > 0
        THEN <<s.current_duration - remaining, s.current_duration>>
        ELSE <<0, 1>>

\* play_end_sound without the sink.empty() guard
play_end_sound_NoGuard(q) == q + 1

\* lines 35-45: play_end_sound.  SineWave::new(440.0) is an unending source
\* and nothing removes it, so a sink that holds it never reports empty again.
play_end_sound(q) == IF q = 0 THEN q + 1 ELSE q

\* lines 192-195: the sink after the "Timer Ended" block
EndedIndicator(s, q) == IF s.timer_ended THEN play_end_sound(q) ELSE q

(***************************************************************************)
(* PomodoroApp::new, lines 18-33, at an arbitrary clock reading 0.         *)
(***************************************************************************)
Init ==
    /\ now = 0
    /\ start_time = None
    /\ work_duration = DurationNew(WorkSecs)
    /\ pause_duration = DurationNew(PauseSecs)
    /\ current_duration = DurationNew(WorkSecs)
    /\ timer_running = FALSE
    /\ is_work_period = TRUE
    /\ timer_ended = FALSE
    /\ sink = 0
    /\ minutes = 0
    /\ seconds = 0
    /\ progress = <<0, 1>>
    /\ boundaries = 0
    /\ ran = 0
    /\ seg = None

(***************************************************************************)
(* The clock advances by one unit between two frames.                      *)
(***************************************************************************)
Advance ==
    /\ now < MaxTime
    /\ now' = now + 1
    /\ ran' = IF timer_running THEN ran + 1 ELSE ran
    /\ UNCHANGED <<start_time, work_duration, pause_duration, current_duration,
                   timer_running, is_work_period, timer_ended, sink, minutes,
                   seconds, progress, boundaries, seg>>

(***************************************************************************)
(* One frame: eframe::App::update, lines 49-202.  toggle and reset say     *)
(* whether the Start/Pause and the Reset button report a click.            *)
(***************************************************************************)
Update(toggle, reset) ==
    LET s0 == Self
        s1 == TimerEval(s0)
        s2 == IF toggle THEN StartPauseClicked(s1) ELSE s1
        s3 == IF reset THEN ResetClicked(s2) ELSE s2
        started == toggle /\ ~s1.timer_running
        paused == toggle /\ s1.timer_running
    IN  /\ start_time' = s3.start_time
        /\ work_duration' = s3.work_duration
        /\ pause_duration' = s3.pause_duration
        /\ current_duration' = s3.current_duration
        /\ timer_running' = s3.timer_running
        /\ is_work_period' = s3.is_work_period
        /\ timer_ended' = s3.timer_ended
        /\ minutes' = TimerDisplay(s0)[1]
        /\ seconds' = TimerDisplay(s0)[2]
        /\ progress' = ProgressBar(s3)
        /\ sink' = EndedIndicator(s3, sink)
        /\ boundaries' = IF Crossing(s0) THEN boundaries + 1 ELSE boundaries
        /\ ran' = IF Crossing(s0) \/ reset THEN 0 ELSE ran
        /\ seg' = IF reset \/ paused THEN None
                  ELSE IF started
                       THEN Some([at |-> now, dur |-> s1.current_duration])
                       ELSE seg
        /\ UNCHANGED now

\* a frame without a click: the passive tick evaluation
Tick == Update(FALSE, FALSE)
\* a frame in which the Start/Pause button is clicked
StartPause == Update(TRUE, FALSE)
\* a frame in which the Reset button is clicked
Reset == Update(FALSE, TRUE)
\* a frame in which both buttons report a click
StartPauseReset == Update(TRUE, TRUE)

Next == Advance \/ Tick \/ StartPause \/ Reset \/ StartPauseReset

Spec == Init /\ [][Next]_vars

(***************************************************************************)
(* The program with no user after the first click: one Start, and then only *)
(* the clock and the frames.  update() ends with ctx.request_repaint()     *)
(* (line 201), so a frame is always scheduled again, and the host clock    *)
(* keeps advancing: both are weakly fair.                                  *)
(***************************************************************************)
FirstStart == start_time = None /\ ~timer_running /\ StartPause

AutoNext == Advance \/ Tick \/ FirstStart

AutoSpec == Init /\ [][AutoNext]_vars /\ WF_vars(Advance) /\ WF_vars(Tick)

(***************************************************************************)
(* The program with the interval lengths of the source, 25 and 5 minutes   *)
(* (lines 24-26): Start is clicked in a frame at the clock reading 0, and  *)
(* then frames are evaluated with no further click while the clock goes    *)
(* on, by StrideSecs seconds or by half the work interval at a time, up to *)
(* RunSlackSecs seconds past the end of the work interval.  (The heading   *)
(* of the last frame is part of the state, so the clock readings are kept  *)
(* few; the sub-second readings are those of Spec.)                        *)
(***************************************************************************)
WorkMinutes == 25
PauseMinutes == 5
RunSlackSecs == 2
StrideSecs == 7
RunMaxTime == DurationNew(WorkMinutes * 60 + RunSlackSecs)
Strides == {DurationNew(StrideSecs), DurationNew(WorkMinutes * 60) \div 2}

RunInit ==
    /\ now = 0
    /\ start_time = None
    /\ work_duration = DurationNew(WorkMinutes * 60)
    /\ pause_duration = DurationNew(PauseMinutes * 60)
    /\ current_duration = DurationNew(WorkMinutes * 60)
    /\ timer_running = FALSE
    /\ is_work_period = TRUE
    /\ timer_ended = FALSE
    /\ sink = 0
    /\ minutes = 0
    /\ seconds = 0
    /\ progress = <<0, 1>>
    /\ boundaries = 0
    /\ ran = 0
    /\ seg = None

\* the clock goes on by k units between two frames, once Start was clicked
Leap(k) ==
    /\ start_time # None
    /\ now + k <= RunMaxTime
    /\ now' = now + k
    /\ ran' = IF timer_running THEN ran + k ELSE ran
    /\ UNCHANGED <<start_time, work_duration, pause_duration, current_duration,
                   timer_running, is_work_period, timer_ended, sink, minutes,
                   seconds, progress, boundaries, seg>>

RunNext == (\E k \in Strides : Leap(k)) \/ Tick \/ FirstStart

RunSpec == RunInit /\ [][RunNext]_vars

TypeOK ==
    /\ now \in 0..MaxTime
    /\ start_time \in {None} \cup {Some(t) : t \in 0..MaxTime}
    /\ current_duration \in {work_duration, pause_duration}
    /\ timer_running \in BOOLEAN /\ is_work_period \in BOOLEAN
    /\ timer_ended \in BOOLEAN
    /\ sink \in Nat /\ minutes \in Nat /\ seconds \in 0..59
    /\ boundaries \in Nat /\ ran \in 0..MaxTime

\* the configured duration of a period
PeriodDuration(work) == IF work THEN work_duration ELSE pause_duration

\* a frame in which the Reset button is clicked, whatever else is clicked
AnyReset == Reset \/ StartPauseReset

\* a frame whose Start/Pause click starts the timer (it is idle after the
\* timer evaluation of that frame, so the click takes the Start branch)
StartAction == StartPause /\ ~TimerEval(Self).timer_running

\* the timer was stopped by Pause part-way through an interval
Paused == ~timer_running /\ ~timer_ended /\ start_time # None

(***************************************************************************)
(* C1.  A tick that finds the running timer's remaining time at zero       *)
(* flips is_work_period, sets current_duration to the new period's         *)
(* configured duration, and leaves the timer running.                      *)
(***************************************************************************)
C1_BoundaryAutoContinues ==
    [][(Tick /\ Crossing(Self)) =>
          /\ is_work_period' = ~is_work_period
          /\ current_duration' = PeriodDuration(is_work_period')
          /\ timer_running' = TRUE]_vars

(***************************************************************************)
(* C2.  Pause/resume conservation: whenever the timer runs and the time it *)
(* has spent running in this interval (over all its run segments) is less  *)
(* than the interval, the remaining time a tick computes is that of one    *)
(* uninterrupted run of that length.                                       *)
(***************************************************************************)
C2_PauseResumeConservation ==
    (timer_running /\ start_time # None /\ ran < current_duration) =>
        Remaining(current_duration, elapsed_since(start_time[1]))
            = Remaining(current_duration, ran)

(***************************************************************************)
(* C3.  A reset, from any state, leaves the timer idle, start_time absent, *)
(* no elapsed time, current_duration = work_duration, is_work_period true  *)
(* and timer_ended false.                                                  *)
(***************************************************************************)
C3_ResetRestoresInitial ==
    [][AnyReset =>
          /\ timer_running' = FALSE
          /\ start_time' = None
          /\ progress'[1] = 0
          /\ current_duration' = work_duration
          /\ is_work_period' = TRUE
          /\ timer_ended' = FALSE]_vars

C5_CycleContinues ==
    (~is_work_period /\ now + pause_duration <= MaxTime) ~> is_work_period

(***************************************************************************)
(* C6.  After a start action at t0 on an interval of duration d, with no   *)
(* pause or reset since, a tick evaluated at t0 + d shows 00:00 and leaves *)
(* timer_ended true.  (seg holds t0 and d; a tick that repeats, at the     *)
(* same clock reading, the tick that crossed the boundary is left out.)    *)
(***************************************************************************)
C6_TickAtEndShowsZero ==
    [][(Tick /\ seg # None /\ now = seg[1].at + seg[1].dur
             /\ start_time # Some(now)) =>
          /\ minutes' = 0
          /\ seconds' = 0
          /\ timer_ended' = TRUE]_vars

\* the tones started so far: play_end_sound appends one source per tone and
\* none is ever removed
TonesStarted == sink

(***************************************************************************)
(* C7.  The tone is started exactly once per boundary crossing: every tick *)
(* starts as many tones as it crosses boundaries, one at a boundary (the   *)
(* first and every later one) and none otherwise.                          *)
(***************************************************************************)
C7_OneTonePerBoundary ==
    [][Tick => (TonesStarted' - TonesStarted = boundaries' - boundaries)]_vars

(***************************************************************************)
(* C8.  A tone is appended only in a frame that ends with timer_ended true *)
(* and found the sink empty, and the sink never holds more than one tone.  *)
(***************************************************************************)
C8_ToneOnlyWhenEndedAndIdle ==
    /\ [][sink' # sink => (timer_ended' /\ sink = 0 /\ sink' = 1)]_vars
    /\ [](sink <= 1)

C8_Witness == sink = 1 /\ timer_ended

(***************************************************************************)
(* C9.  timer_ended is set by a boundary crossing, is false right after    *)
(* every start action and every reset, and a tick between a boundary       *)
(* crossing and the next start or reset leaves it true.                    *)
(***************************************************************************)
C9_EndedSetAndCleared ==
    [][/\ (Tick /\ Crossing(Self)) => timer_ended'
       /\ (StartAction \/ AnyReset) => ~timer_ended'
       /\ (Tick /\ timer_ended) => timer_ended']_vars

\* a start action has cleared the flag a boundary crossing had set
C9_Witness == boundaries > 0 /\ timer_running /\ ~timer_ended /\ seg # None

(***************************************************************************)
(* C10.  While the timer is paused part-way through an interval, the       *)
(* heading shows the remaining time of the interval: current_duration      *)
(* minus the time that elapsed before the pause.                           *)
(***************************************************************************)
C10_PausedShowsRemaining ==
    [][(Tick /\ Paused) =>
          <<minutes', seconds'>> = Display(Remaining(current_duration, ran))]_vars

\* the time, in clock units, since start_time (what start_time.elapsed()
\* returns in this state)
Elapsed == elapsed_since(start_time[1])

\* a running timer whose elapsed time is a whole number e of seconds
RunningAtSecond(e) ==
    timer_running /\ start_time # None /\ Elapsed = DurationNew(e)

(***************************************************************************)
(* C11.  For a running timer of interval d seconds whose elapsed time is a *)
(* whole number e <= d of seconds, the tick returns minutes = (d - e) div  *)
(* 60 and seconds = (d - e) mod 60, so seconds is in 0..59 and             *)
(* 60 * minutes + seconds is the remaining seconds; for d = 1500 that is   *)
(* (25,0) at e = 0, (12,30) at e = 750 and (0,0) at e = 1500.              *)
(***************************************************************************)
C11_DisplayIsDivMod ==
    /\ (timer_running /\ start_time # None) =>
          LET d == as_secs(current_duration)
              e == as_secs(Elapsed)
              shown == TimerDisplay(Self)
          IN  (RunningAtSecond(e) /\ e <= d) =>
                  /\ shown = <<(d - e) \div 60, (d - e) % 60>>
                  /\ shown[2] \in 0..59
                  /\ 60 * shown[1] + shown[2] = d - e
    /\ (RunningAtSecond(0) /\ as_secs(current_duration) = 1500) =>
          TimerDisplay(Self) = <<25, 0>>
    /\ (RunningAtSecond(750) /\ as_secs(current_duration) = 1500) =>
          TimerDisplay(Self) = <<12, 30>>
    /\ (RunningAtSecond(1500) /\ as_secs(current_duration) = 1500) =>
          TimerDisplay(Self) = <<0, 0>>

\* a tick has rendered 12:30 half-way through the 25 minutes
C11_Witness == RunningAtSecond(750) /\ minutes = 12 /\ seconds = 30

\* the timer fields a tick may write
TimerFields ==
    <<start_time, current_duration, timer_running, is_work_period, timer_ended>>

\* comparison of two progress values <<num, den>>, den > 0
ProgressLeq(p, q) == p[1] * q[2] <= q[1] * p[2]
ProgressInUnit(p) == 0 <= p[1] /\ p[1] <= p[2]

(***************************************************************************)
(* C12.  In the frame whose tick finds the running interval fully elapsed  *)
(* (elapsed = current_duration), the progress value rendered is 1.0, the   *)
(* heading is 00:00 and timer_ended is true.                               *)
(***************************************************************************)
C12_FullBarAtEnd ==
    [][(Tick /\ timer_running /\ start_time # None
             /\ Elapsed = current_duration) =>
          /\ progress'[1] = progress'[2]
          /\ minutes' = 0
          /\ seconds' = 0
          /\ timer_ended' = TRUE]_vars

C14_NoEarlyEnd ==
    [][(Tick /\ timer_running /\ start_time # None
             /\ Elapsed < current_duration) =>
          UNCHANGED <<timer_ended, is_work_period, current_duration>>]_vars

(***************************************************************************)
(* C15.  A tick evaluated while the timer is not running, or while it is   *)
(* running with remaining time above zero, leaves start_time,              *)
(* current_duration, timer_running, is_work_period and timer_ended         *)
(* unchanged.                                                              *)
(***************************************************************************)
C15_TickFrame ==
    [][(Tick /\ (~timer_running
                 \/ (start_time # None
                     /\ Remaining(current_duration, Elapsed) > 0))) =>
          UNCHANGED TimerFields]_vars

\* What does hold of the code: a tick that does not take the boundary branch
\* of line 117 (a stopped timer, or at least one whole second remaining)
\* writes no timer field.
TickFrameOutsideBoundary ==
    [][(Tick /\ ~Crossing(Self)) => UNCHANGED TimerFields]_vars

(***************************************************************************)
(* C16.  In every reachable state current_duration agrees with the period  *)
(* flag: work_duration when is_work_period, pause_duration when not.       *)
(***************************************************************************)
C16_DurationMatchesPeriod == current_duration = PeriodDuration(is_work_period)

====
